---- MODULE Spec2Model ----
(***************************************************************************)
(* Model of moonshine_view (src/src/lib.rs): the Viewable<T> / View<T>     *)
(* relationship, the Viewables registry, the spawn / build / despawn       *)
(* systems and the rebuild function, run by a host schedule that buffers   *)
(* commands and applies them at the barrier that ends a phase.             *)
(*                                                                         *)
(* Viewable<T> is a bevy_ecs Relationship and View<T> its                  *)
(* RelationshipTarget (lib.rs 82-150).  Their component hooks are the ones *)
(* lib.rs registers by hand: Relationship::on_insert / on_replace on       *)
(* Viewable<T>, RelationshipTarget::on_replace / on_despawn on View<T>.    *)
(* The hooks are modelled by what bevy_ecs 0.16 does in them; commands a   *)
(* hook queues run right after the operation that fired the hook.          *)
(***************************************************************************)
EXTENDS Integers, Sequences, FiniteSets, TLC

\* ---------------------------------------------------------------- bounds
\* Entity ids are 1..MaxEntity; an id is never reused (the store's generation
\* counter makes a re-used index a different Entity).
MaxEntity == 3
\* rebuild calls the host may buffer in one phase.
MaxRebuilds == 2
\* Builder invocations are counted up to this number (then the count stays).
MaxBuilt == 2

Entity == 1..MaxEntity
\* Entity::PLACEHOLDER: the value of an empty one-to-one collection.
PLACEHOLDER == MaxEntity + 1

\* ----------------------------------------------------------------- kinds
\* add_viewable::<T>() registers the base kind; add_view::<T, S1>() and
\* add_view::<T, S2>() register two specializations of it.
BaseKinds == {"T"}
SpecKinds == {"S1", "S2"}
Kinds == BaseKinds \cup SpecKinds
\* A second, independent base kind, for an App that also calls add_viewable::<U>.
AllKinds == Kinds \cup {"U"}
Base(k) == IF k \in SpecKinds THEN "T" ELSE k
\* The build systems that read Added<Viewable<b>>: build_view::<b, s>.
Builders(b) == {s \in AllKinds : Base(s) = b}

\* The kind filters a model may satisfy (its tag components).
TagSets == {{}, {"T"}, {"T", "S1"}, {"T", "S1", "S2"}}

\* ------------------------------------------------------ sequence helpers
RECURSIVE SetToSeq(_)
SetToSeq(S) ==
    IF S = {} THEN <<>>
    ELSE LET x == CHOOSE y \in S : TRUE IN <<x>> \o SetToSeq(S \ {x})

\* ------------------------------------------------------------- the world
\* A world w is a record:
\*   alive     the entities that exist
\*   tags      tags[e]: the kinds whose Filter entity e satisfies
\*   unload    the entities that carry Unload
\*   viewable  <<m, k, v>>: m carries Viewable<k> { view: v }
\*   view      <<v, k, c>>: v carries View<k> { viewable: c }
\*   added     <<m, b, s>>: Viewable<b> on m is Added for build_view::<b, s>
\*   built     built[<<m, k, v>>]: invocations of k's builder for m with view v
\*   regE/regK/regV   the three maps of the Viewables resource
\*   panic     "none", or what aborted the program

HasViewable(w, m, k) == \E t \in w.viewable : t[1] = m /\ t[2] = k
\* Viewable::view (lib.rs 110-112) / Relationship::get (92-94)
ViewOf(w, m, k) == (CHOOSE t \in w.viewable : t[1] = m /\ t[2] = k)[3]
HasView(w, v, k) == \E t \in w.view : t[1] = v /\ t[2] = k
\* View::viewable (lib.rs 125-127) / RelationshipTarget::collection (137-139)
ViewableOf(w, v, k) == (CHOOSE t \in w.view : t[1] = v /\ t[2] = k)[3]

\* Kind filter of an Objects<T, ..> / Query<(), T::Filter> query.
Matches(w, e, k) == e \in w.alive /\ k \in w.tags[e]

\* --------------------------------------------------------------- registry
\* Viewables::contains
Contains(w, e) == e \in DOMAIN w.regE
\* Viewables::is_view
IsView(w, e) == e \in DOMAIN w.regV
\* Viewables::views
Views(w, e) == IF e \in DOMAIN w.regE THEN w.regE[e] ELSE {}
\* Viewables::is_view_of_kind
IsViewOfKind(w, k, e) ==
    /\ e \in DOMAIN w.regV
    /\ k \in DOMAIN w.regK
    /\ w.regV[e] \in w.regK[k]

MapPut(f, x, y) == [z \in (DOMAIN f) \cup {x} |-> IF z = x THEN y ELSE f[z]]
MapDel(f, x) == [z \in (DOMAIN f) \ {x} |-> f[z]]

\* Viewables::add
RegAdd(w, k, m, v) ==
    LET e1 == MapPut(w.regE, m, Views(w, m) \cup {v})
    IN  IF k \notin DOMAIN w.regK
        THEN [w EXCEPT !.regE = e1, !.panic = "kind must be registered as viewable"]
        ELSE LET w1 == [w EXCEPT !.regE = e1,
                                 !.regK = [w.regK EXCEPT ![k] = @ \cup {m}],
                                 !.regV = MapPut(w.regV, v, m)]
             IN  IF v \in DOMAIN w.regV
                 THEN [w1 EXCEPT !.panic = "debug_assert previous.is_none"]
                 ELSE w1

\* Viewables::remove that keeps a model's key when its last view is removed.
RegRemoveKeepsKey(w, k, m, v) ==
    IF m \notin DOMAIN w.regE
    THEN [w EXCEPT !.panic = "Viewables::remove unwrap on entities"]
    ELSE LET e1 == MapPut(w.regE, m, w.regE[m] \ {v})
         IN  IF k \notin DOMAIN w.regK
             THEN [w EXCEPT !.regE = e1, !.panic = "Viewables::remove unwrap on kinds"]
             ELSE [w EXCEPT !.regE = e1,
                            !.regK = [w.regK EXCEPT ![k] = @ \ {v}],
                            !.regV = MapDel(w.regV, v)]

\* Viewables::remove that drops the model's key whatever views are left.
RegRemoveDropsModel(w, k, m, v) ==
    IF m \notin DOMAIN w.regE
    THEN [w EXCEPT !.panic = "Viewables::remove unwrap on entities"]
    ELSE LET e1 == MapDel(w.regE, m)
         IN  IF k \notin DOMAIN w.regK
             THEN [w EXCEPT !.regE = e1, !.panic = "Viewables::remove unwrap on kinds"]
             ELSE [w EXCEPT !.regE = e1,
                            !.regK = [w.regK EXCEPT ![k] = @ \ {v}],
                            !.regV = MapDel(w.regV, v)]

\* Viewables::remove
RegRemove(w, k, m, v) ==
    IF m \notin DOMAIN w.regE
    THEN [w EXCEPT !.panic = "Viewables::remove unwrap on entities"]
    ELSE LET left == w.regE[m] \ {v}
             e1 == IF left = {} THEN MapDel(w.regE, m) ELSE MapPut(w.regE, m, left)
         IN  IF k \notin DOMAIN w.regK
             THEN [w EXCEPT !.regE = e1, !.panic = "Viewables::remove unwrap on kinds"]
             ELSE [w EXCEPT !.regE = e1,
                            !.regK = [w.regK EXCEPT ![k] = @ \ {v}],
                            !.regV = MapDel(w.regV, v)]

\* ------------------------------------------------------- component hooks
\* An operation on the world yields the new world and the commands its hooks
\* queued: [w |-> .., q |-> ..].

\* <Viewable<k> as Relationship>::on_replace for the Viewable<k> components of
\* the pairs in `gone` (<<m, k, v>>): the target's collection forgets m, and a
\* collection left empty queues the removal of View<k> from the target.
OnReplaceViewable(w, gone) ==
    LET hit == {t \in w.view : t[1] \in w.alive /\ <<t[3], t[2], t[1]>> \in gone}
        emptied == hit \cup {t \in w.view : t[3] = PLACEHOLDER /\ t[1] \in w.alive
                                  /\ \E g \in gone : g[3] = t[1] /\ g[2] = t[2]}
    IN  [w |-> [w EXCEPT !.view = (w.view \ hit)
                              \cup {<<t[1], t[2], PLACEHOLDER>> : t \in hit}],
         q |-> SetToSeq({<<"remove_view_if_empty", t[1], t[2]>> : t \in emptied})]

\* <View<k> as RelationshipTarget>::on_replace for the components `gone`
\* (<<v, k, c>>): queue the removal of Viewable<k> from every source that exists.
OnReplaceView(w, gone) ==
    SetToSeq({<<"remove", t[2], t[3]>> : t \in {g \in gone : g[3] \in w.alive}})

\* A View<k> registered without the on_despawn hook.
OnDespawnViewUnhooked(w, gone) == <<>>

\* <View<k> as RelationshipTarget>::on_despawn for the components `gone`:
\* queue the despawn of every source that exists.
OnDespawnView(w, gone) ==
    SetToSeq({<<"despawn", t[3]>> : t \in {g \in gone : g[3] \in w.alive}})

\* <Viewable<k> as Relationship>::on_insert on m, whose Viewable<k> targets v.
OnInsertViewable(w, k, m, v) ==
    IF v = m \/ v \notin w.alive
    THEN [w |-> w, q |-> << <<"remove", k, m>> >>]
    ELSE IF HasView(w, v, k)
         THEN [w |-> [w EXCEPT !.view = {t \in w.view : ~(t[1] = v /\ t[2] = k)}
                                            \cup {<<v, k, m>>}],
               q |-> <<>>]
         ELSE [w |-> w, q |-> << <<"insert_view", v, k, m>> >>]

\* ------------------------------------------------------ world operations
\* EntityWorldMut::insert of Viewable::<k>::new(v) on m; keep = insert_if_new.
InsertViewable(w, k, m, v, keep) ==
    IF m \notin w.alive
    THEN [w |-> [w EXCEPT !.panic = "insert on a missing entity"], q |-> <<>>]
    ELSE IF keep /\ HasViewable(w, m, k)
    THEN [w |-> w, q |-> <<>>]
    ELSE LET had == HasViewable(w, m, k)
             old == {t \in w.viewable : t[1] = m /\ t[2] = k}
             r1 == OnReplaceViewable(w, old)
             w2 == [r1.w EXCEPT
                      !.viewable = (@ \ old) \cup {<<m, k, v>>},
                      !.added = IF had THEN @
                                ELSE @ \cup {<<m, k, s>> : s \in Builders(k)}]
             r2 == OnInsertViewable(w2, k, m, v)
         IN  [w |-> r2.w, q |-> r1.q \o r2.q]

\* EntityWorldMut::remove::<Viewable<k>>() on m; a missing entity is tolerated.
RemoveViewable(w, k, m) ==
    IF m \notin w.alive \/ ~HasViewable(w, m, k)
    THEN [w |-> w, q |-> <<>>]
    ELSE LET old == {t \in w.viewable : t[1] = m /\ t[2] = k}
             r1 == OnReplaceViewable(w, old)
         IN  [w |-> [r1.w EXCEPT !.viewable = @ \ old,
                                 !.added = {a \in @ : ~(a[1] = m /\ a[2] = k)}],
              q |-> r1.q]

\* The command Relationship::on_insert queues: insert View<k> { m } on v.
InsertView(w, v, k, m) ==
    IF v \notin w.alive
    THEN [w |-> [w EXCEPT !.panic = "insert on a missing entity"], q |-> <<>>]
    ELSE LET old == {t \in w.view : t[1] = v /\ t[2] = k}
         IN  [w |-> [w EXCEPT !.view = (@ \ old) \cup {<<v, k, m>>}],
              q |-> OnReplaceView(w, old)]

\* The command Relationship::on_replace queues: remove View<k> from v if its
\* collection is still empty.
RemoveViewIfEmpty(w, v, k) ==
    IF v \in w.alive /\ <<v, k, PLACEHOLDER>> \in w.view
    THEN [w |-> [w EXCEPT !.view = @ \ {<<v, k, PLACEHOLDER>>}], q |-> <<>>]
    ELSE [w |-> w, q |-> <<>>]

\* A despawn that runs no component hook.
DespawnUnhooked(w, e) ==
    IF e \notin w.alive
    THEN [w |-> w, q |-> <<>>]
    ELSE [w |-> [w EXCEPT
                   !.alive = @ \ {e},
                   !.tags = [@ EXCEPT ![e] = {}],
                   !.unload = @ \ {e},
                   !.viewable = {t \in @ : t[1] # e},
                   !.view = {t \in @ : t[1] # e},
                   !.added = {a \in @ : a[1] # e}],
          q |-> <<>>]

\* EntityWorldMut::despawn of e; a missing entity is tolerated.  The hooks of
\* its components run while it still exists: on_despawn, then on_replace.
Despawn(w, e) ==
    IF e \notin w.alive
    THEN [w |-> w, q |-> <<>>]
    ELSE LET myViews == {t \in w.view : t[1] = e /\ t[3] # PLACEHOLDER}
             myViewables == {t \in w.viewable : t[1] = e}
             r1 == OnReplaceViewable(w, myViewables)
         IN  [w |-> [r1.w EXCEPT
                       !.alive = @ \ {e},
                       !.tags = [@ EXCEPT ![e] = {}],
                       !.unload = @ \ {e},
                       !.viewable = {t \in @ : t[1] # e},
                       !.view = {t \in @ : t[1] # e},
                       !.added = {a \in @ : a[1] # e}],
              q |-> OnDespawnView(w, myViews) \o OnReplaceView(w, myViews) \o r1.q]

\* commands.spawn(()): the view entity comes to exist without Unload.
SpawnViewUntagged(w, e) ==
    [w |-> [w EXCEPT !.alive = @ \cup {e}], q |-> <<>>]

\* commands.spawn(Unload): the view entity comes to exist, tagged Unload.
SpawnView(w, e) ==
    [w |-> [w EXCEPT !.alive = @ \cup {e}, !.unload = @ \cup {e}], q |-> <<>>]

\* ------------------------------------------------------- applying commands
\* One command.  The closure despawn_view queues is its three steps in order.
Step(w, c) ==
    CASE c[1] = "spawn" -> SpawnView(w, c[2])
      [] c[1] = "reg_add" -> [w |-> RegAdd(w, c[2], c[3], c[4]), q |-> <<>>]
      [] c[1] = "reg_remove" -> [w |-> RegRemove(w, c[2], c[3], c[4]), q |-> <<>>]
      [] c[1] = "insert" -> InsertViewable(w, c[2], c[3], c[4], FALSE)
      [] c[1] = "insert_if_new" -> InsertViewable(w, c[2], c[3], c[4], TRUE)
      [] c[1] = "remove" -> RemoveViewable(w, c[2], c[3])
      [] c[1] = "despawn" -> Despawn(w, c[2])
      [] c[1] = "insert_view" -> InsertView(w, c[2], c[3], c[4])
      [] c[1] = "remove_view_if_empty" -> RemoveViewIfEmpty(w, c[2], c[3])
      [] c[1] = "despawn_view" ->
            [w |-> w, q |-> << <<"remove", c[2], c[3]>>, <<"despawn", c[4]>>,
                               <<"reg_remove", c[2], c[3], c[4]>> >>]
      [] c[1] = "spawn_model" ->
            [w |-> [w EXCEPT !.alive = @ \cup {c[2]}, !.tags = [@ EXCEPT ![c[2]] = c[3]]],
             q |-> <<>>]
      [] c[1] = "set_tags" ->
            [w |-> IF c[2] \in w.alive THEN [w EXCEPT !.tags = [@ EXCEPT ![c[2]] = c[3]]]
                   ELSE w,
             q |-> <<>>]

\* CommandQueue::apply: the commands in order; what a command's hooks queued
\* runs before the next command; a panic ends the program.
RECURSIVE Exec(_, _)
Exec(w, cs) ==
    IF cs = <<>> \/ w.panic # "none" THEN w
    ELSE LET r == Step(w, Head(cs)) IN Exec(r.w, r.q \o Tail(cs))

\* ------------------------------------------------------------ the systems
\* What a system that runs on world w buffers: [w |-> .., cmds |-> ..] (w
\* changes only by what the system does while it runs: builder invocations,
\* and the Added flags its run consumes).

\* spawn_view over Objects<T> without the Without<Viewable<T>> filter.
SpawnTargetsUnfiltered(w, k) == {m \in w.alive : Matches(w, m, k)}

\* spawn_view::<k>: one view per object of kind k without Viewable<k>; the view
\* ids are reserved while the system runs, from `first` on.
SpawnTargets(w, k) == {m \in w.alive : Matches(w, m, k) /\ ~HasViewable(w, m, k)}

\* spawn_view that never inserts Viewable on the model.
RECURSIVE SpawnCmdsNoInsert(_, _, _)
SpawnCmdsNoInsert(k, ms, first) ==
    IF ms = <<>> THEN <<>>
    ELSE << <<"spawn", first>>,
            <<"reg_add", k, Head(ms), first>> >>
         \o SpawnCmdsNoInsert(k, Tail(ms), first + 1)

RECURSIVE SpawnCmds(_, _, _)
SpawnCmds(k, ms, first) ==
    IF ms = <<>> THEN <<>>
    ELSE << <<"spawn", first>>,
            <<"reg_add", k, Head(ms), first>>,
            <<"insert", k, Head(ms), first>> >>
         \o SpawnCmds(k, Tail(ms), first + 1)

\* spawn_view that gives an object that already has a registered view that
\* view again, instead of spawning one.
spawn_view_shared(w, k, first) ==
    LET ms == SetToSeq(SpawnTargets(w, k))
    IN  IF ms # <<>> /\ Views(w, Head(ms)) # {}
        THEN LET v == CHOOSE x \in Views(w, Head(ms)) : TRUE
             IN  << <<"reg_add", k, Head(ms), v>>, <<"insert", k, Head(ms), v>> >>
        ELSE SpawnCmds(k, ms, first)

spawn_view(w, k, first) == SpawnCmds(k, SetToSeq(SpawnTargets(w, k)), first)

\* build_view whose query lacks the Without<Viewable<S>> condition.
BuildTargetsUnfiltered(w, s) ==
    {m \in w.alive :
        /\ Matches(w, m, Base(s))
        /\ Matches(w, m, s)
        /\ \/ <<m, Base(s), s>> \in w.added
           \/ HasViewable(w, m, Base(s))}

\* build_view::<Base(s), s>: the objects its query yields.
BuildTargets(w, s) ==
    {m \in w.alive :
        /\ Matches(w, m, Base(s))
        /\ Matches(w, m, s)
        /\ \/ <<m, Base(s), s>> \in w.added
           \/ HasViewable(w, m, Base(s)) /\ ~HasViewable(w, m, s)}

\* build_view scheduled where its query yields nothing.
build_view_idle(w, s) == [w |-> w, cmds |-> <<>>]

Bump(n) == IF n < MaxBuilt THEN n + 1 ELSE n

build_view(w, s) ==
    LET ms == BuildTargets(w, s)
    IN  [w |-> [w EXCEPT
                  !.built = LET now == {<<m, s, ViewOf(w, m, Base(s))>> : m \in ms}
                            IN  [x \in (DOMAIN @) \cup now |->
                                   IF x \in now
                                   THEN IF x \in DOMAIN @ THEN Bump(@[x]) ELSE 1
                                   ELSE @[x]],
                  !.added = {a \in @ : ~(a[2] = Base(s) /\ a[3] = s)}],
         cmds |-> SetToSeq({<<"insert_if_new", s, m, ViewOf(w, m, Base(s))>> : m \in ms})]

\* despawn_view without the query.get(viewable.entity()).is_err() test.
DespawnTargetsAll(w, k) == {t \in w.view : t[1] \in w.alive /\ t[2] = k}

\* despawn_view::<k>: one closure per View<k> whose viewable fails k's filter.
DespawnTargets(w, k) ==
    {t \in w.view : t[1] \in w.alive /\ t[2] = k /\ ~Matches(w, t[3], k)}

despawn_view(w, k) ==
    SetToSeq({<<"despawn_view", k, t[3], t[1]>> : t \in DespawnTargets(w, k)})

\* rebuild::<k>(viewable, commands) for the InstanceRef of m's Viewable<k>.
rebuild(w, k, m) ==
    << <<"despawn", ViewOf(w, m, k)>>,
       <<"reg_remove", k, m, ViewOf(w, m, k)>>,
       <<"remove", k, m>> >>

\* ------------------------------------------------------------------ state
VARIABLES
    alive, tags, unload, viewable, view, added, built, regE, regK, regV, panic,
    nextEntity,   \* the next entity id the store hands out
    pc,           \* where the tick is
    cmds,         \* the commands the pipeline's systems have buffered
    hostCmds,     \* the rebuild commands host systems have buffered in this phase
    \* History, for stating the properties; no system reads it.
    spawnedNow,   \* <<m, v>>: this tick's spawn_view reserved view v for model m
    stale,        \* <<m, v>>: registered pairs whose model failed T's filter when
                  \* this tick's despawn_view ran
    touched,      \* entities the host despawned or re-tagged since the tick began
    hostKilled,   \* entities the host despawned, and the models of such views
    retagged,     \* models whose tag components the host changed after creating them
    rebuiltNow,   \* <<k, m, v>>: rebuild calls of this tick
    rebuiltPrev   \* <<k, m, v>>: rebuild calls of the previous tick

worldVars == <<alive, tags, unload, viewable, view, added, built, regE, regK, regV, panic>>
histVars == <<spawnedNow, stale, touched, hostKilled, retagged, rebuiltNow, rebuiltPrev>>
vars == <<worldVars, nextEntity, pc, cmds, hostCmds, histVars>>

World ==
    [alive |-> alive, tags |-> tags, unload |-> unload, viewable |-> viewable,
     view |-> view, added |-> added, built |-> built,
     regE |-> regE, regK |-> regK, regV |-> regV, panic |-> panic]

SetWorld(w) ==
    /\ alive' = w.alive
    /\ tags' = w.tags
    /\ unload' = w.unload
    /\ viewable' = w.viewable
    /\ view' = w.view
    /\ added' = w.added
    /\ built' = w.built
    /\ regE' = w.regE
    /\ regK' = w.regK
    /\ regV' = w.regV
    /\ panic' = w.panic

\* App::new() followed by add_viewable::<T>(), add_view::<T, S1>(),
\* add_view::<T, S2>(): an empty world; add_kind gave T an empty set.
Init ==
    /\ alive = {}
    /\ tags = [e \in Entity |-> {}]
    /\ unload = {}
    /\ viewable = {}
    /\ view = {}
    /\ added = {}
    /\ built = <<>>
    /\ regE = <<>>
    /\ regK = [k \in BaseKinds |-> {}]
    /\ regV = <<>>
    /\ panic = "none"
    /\ nextEntity = 1
    /\ pc = "idle"
    /\ cmds = <<>>
    /\ hostCmds = <<>>
    /\ spawnedNow = {}
    /\ stale = {}
    /\ touched = {}
    /\ hostKilled = {}
    /\ retagged = {}
    /\ rebuiltNow = {}
    /\ rebuiltPrev = {}

Running == panic = "none"

\* ------------------------------------------------------------ host systems
\* Host code changes the world between ticks ("idle"), in the Update phase,
\* and in PreUpdate and Last after spawn_view / despawn_view have run and
\* before their commands are applied.
HostPhases == {"idle", "spawn", "update", "despawn"}

HostMay == Running /\ pc \in HostPhases

\* world.spawn(<tag components>)
HostSpawnModel(ts) ==
    /\ HostMay
    /\ nextEntity <= MaxEntity
    /\ SetWorld(Exec(World, << <<"spawn_model", nextEntity, ts>> >>))
    /\ nextEntity' = nextEntity + 1
    /\ UNCHANGED <<pc, cmds, hostCmds, histVars>>

\* e, and the models whose Viewable names e as their view.
Partners(e) == {e} \cup {t[1] : t \in {x \in viewable : x[3] = e}}

\* world.despawn(e), of a model or (out-of-band) of a view
HostDespawn(e) ==
    /\ HostMay
    /\ e \in alive
    /\ SetWorld(Exec(World, << <<"despawn", e>> >>))
    /\ touched' = touched \cup Partners(e)
    /\ hostKilled' = hostKilled \cup Partners(e)
    /\ UNCHANGED <<nextEntity, pc, cmds, hostCmds, spawnedNow, stale, retagged, rebuiltNow, rebuiltPrev>>

\* Inserting / removing tag components of a model, so that it satisfies ts.
HostSetTags(e, ts) ==
    /\ HostMay
    /\ e \in alive \ unload
    /\ tags[e] # ts
    /\ SetWorld(Exec(World, << <<"set_tags", e, ts>> >>))
    /\ touched' = touched \cup {e}
    /\ retagged' = retagged \cup {e}
    /\ UNCHANGED <<nextEntity, pc, cmds, hostCmds, spawnedNow, stale, hostKilled, rebuiltNow, rebuiltPrev>>

\* A host system calls moonshine_view::rebuild(viewable, &mut commands) for
\* the Viewable<k> of m; its commands wait for the barrier of the phase.
HostRebuild(m, k) ==
    /\ HostMay
    /\ pc # "idle"
    /\ Len(hostCmds) < 3 * MaxRebuilds
    /\ HasViewable(World, m, k)
    /\ hostCmds' = hostCmds \o rebuild(World, k, m)
    /\ rebuiltNow' = rebuiltNow \cup {<<k, m, ViewOf(World, m, k)>>}
    /\ UNCHANGED <<worldVars, nextEntity, pc, cmds, spawnedNow, stale, touched, hostKilled, retagged, rebuiltPrev>>

\* The barrier of a phase: the buffers of the systems that ran in it, one
\* system's buffer after the other.
Barrier(hostFirst) ==
    Exec(World, IF hostFirst THEN hostCmds \o cmds ELSE cmds \o hostCmds)

\* ------------------------------------------------------------------ a tick
\* PreUpdate: spawn_view::<T> runs.
SpawnStage ==
    /\ Running
    /\ pc = "idle"
    /\ nextEntity + Cardinality(SpawnTargets(World, "T")) <= MaxEntity + 1
    /\ cmds' = spawn_view(World, "T", nextEntity)
    /\ nextEntity' = nextEntity + Cardinality(SpawnTargets(World, "T"))
    /\ pc' = "spawn"
    /\ spawnedNow' = {<<c[3], c[4]>> : c \in {cmds'[i] : i \in {j \in 1..Len(cmds') : cmds'[j][1] = "reg_add"}}}
    /\ stale' = {}
    /\ touched' = {}
    /\ rebuiltNow' = {}
    /\ rebuiltPrev' = rebuiltNow
    /\ UNCHANGED <<worldVars, hostCmds, hostKilled, retagged>>

\* The barrier .chain() puts between spawn_view and build_view::<T, T>.
ApplySpawn(hostFirst) ==
    /\ Running
    /\ pc = "spawn"
    /\ SetWorld(Barrier(hostFirst))
    /\ cmds' = <<>>
    /\ hostCmds' = <<>>
    /\ pc' = "build"
    /\ UNCHANGED <<nextEntity, histVars>>

\* build_view::<T, T> and the barrier before the systems after ViewBaseSystems.
BuildBase ==
    /\ Running
    /\ pc = "build"
    /\ LET r == build_view(World, "T") IN SetWorld(Exec(r.w, r.cmds))
    /\ pc' = "specs"
    /\ UNCHANGED <<nextEntity, cmds, hostCmds, histVars>>

\* build_view::<T, S1> and build_view::<T, S2>, not ordered with each other:
\* both run on the same world, and their buffers are applied at the end of
\* PreUpdate, s1's first.
BuildSpecs(s1, s2) ==
    /\ Running
    /\ pc = "specs"
    /\ LET r1 == build_view(World, s1)
           r2 == build_view(r1.w, s2)
       IN  SetWorld(Exec(r2.w, r1.cmds \o r2.cmds))
    /\ pc' = "update"
    /\ UNCHANGED <<nextEntity, cmds, hostCmds, histVars>>

\* The end of the Update phase: the host's commands are applied.
EndUpdate ==
    /\ Running
    /\ pc = "update"
    /\ SetWorld(Barrier(TRUE))
    /\ hostCmds' = <<>>
    /\ pc' = "last"
    /\ UNCHANGED <<nextEntity, cmds, histVars>>

\* Last: despawn_view::<T> runs.
DespawnStage ==
    /\ Running
    /\ pc = "last"
    /\ cmds' = despawn_view(World, "T")
    /\ pc' = "despawn"
    /\ stale' = {<<regV[v], v>> : v \in {x \in DOMAIN regV : ~Matches(World, regV[x], "T")}}
    /\ UNCHANGED <<worldVars, nextEntity, hostCmds, spawnedNow, touched, hostKilled, retagged, rebuiltNow, rebuiltPrev>>

\* The barrier that ends Last, and the tick.
ApplyDespawn(hostFirst) ==
    /\ Running
    /\ pc = "despawn"
    /\ SetWorld(Barrier(hostFirst))
    /\ cmds' = <<>>
    /\ hostCmds' = <<>>
    /\ pc' = "idle"
    /\ UNCHANGED <<nextEntity, histVars>>

Next ==
    \/ \E ts \in TagSets : HostSpawnModel(ts)
    \/ \E e \in Entity : HostDespawn(e)
    \/ \E e \in Entity, ts \in TagSets : HostSetTags(e, ts)
    \/ \E m \in Entity, k \in Kinds : HostRebuild(m, k)
    \/ SpawnStage
    \/ \E b \in BOOLEAN : ApplySpawn(b)
    \/ BuildBase
    \/ BuildSpecs("S1", "S2")
    \/ BuildSpecs("S2", "S1")
    \/ EndUpdate
    \/ DespawnStage
    \/ \E b \in BOOLEAN : ApplyDespawn(b)

Spec == Init /\ [][Next]_vars

\* ------------------------------------------- an App with two base kinds
\* App::new() followed by add_viewable::<T>() and add_viewable::<U>(): two
\* independent base kinds, no specialization.  The systems of T and of U are
\* not ordered with each other; k1's buffer is applied before k2's.
TwoKinds == {"T", "U"}
TwoTagSets == {{}, {"T"}, {"U"}, {"T", "U"}}

TwoInit ==
    /\ alive = {}
    /\ tags = [e \in Entity |-> {}]
    /\ unload = {}
    /\ viewable = {}
    /\ view = {}
    /\ added = {}
    /\ built = <<>>
    /\ regE = <<>>
    /\ regK = [k \in TwoKinds |-> {}]
    /\ regV = <<>>
    /\ panic = "none"
    /\ nextEntity = 1
    /\ pc = "idle"
    /\ cmds = <<>>
    /\ hostCmds = <<>>
    /\ spawnedNow = {}
    /\ stale = {}
    /\ touched = {}
    /\ hostKilled = {}
    /\ retagged = {}
    /\ rebuiltNow = {}
    /\ rebuiltPrev = {}

\* PreUpdate: spawn_view::<T> and spawn_view::<U> run on the same world.
TwoSpawnStage(k1, k2) ==
    /\ Running
    /\ pc = "idle"
    /\ LET n1 == Cardinality(SpawnTargets(World, k1))
           n2 == Cardinality(SpawnTargets(World, k2))
       IN  /\ nextEntity + n1 + n2 <= MaxEntity + 1
           /\ cmds' = spawn_view(World, k1, nextEntity)
                         \o spawn_view(World, k2, nextEntity + n1)
           /\ nextEntity' = nextEntity + n1 + n2
    /\ pc' = "spawn"
    /\ spawnedNow' = {<<c[3], c[4]>> : c \in {cmds'[i] : i \in {j \in 1..Len(cmds') : cmds'[j][1] = "reg_add"}}}
    /\ stale' = {}
    /\ touched' = {}
    /\ rebuiltNow' = {}
    /\ rebuiltPrev' = rebuiltNow
    /\ UNCHANGED <<worldVars, hostCmds, hostKilled, retagged>>

\* build_view::<T, T> and build_view::<U, U>, and the barrier that ends PreUpdate.
TwoBuild(k1, k2) ==
    /\ Running
    /\ pc = "build"
    /\ LET r1 == build_view(World, k1)
           r2 == build_view(r1.w, k2)
       IN  SetWorld(Exec(r2.w, r1.cmds \o r2.cmds))
    /\ pc' = "update"
    /\ UNCHANGED <<nextEntity, cmds, hostCmds, histVars>>

\* Last: despawn_view::<T> and despawn_view::<U> run on the same world.
TwoDespawnStage(k1, k2) ==
    /\ Running
    /\ pc = "last"
    /\ cmds' = despawn_view(World, k1) \o despawn_view(World, k2)
    /\ pc' = "despawn"
    /\ UNCHANGED <<worldVars, nextEntity, hostCmds, histVars>>

TwoNext ==
    \/ \E ts \in TwoTagSets : HostSpawnModel(ts)
    \/ \E e \in Entity : HostDespawn(e)
    \/ \E e \in Entity, ts \in TwoTagSets : HostSetTags(e, ts)
    \/ \E m \in Entity, k \in TwoKinds : HostRebuild(m, k)
    \/ TwoSpawnStage("T", "U")
    \/ TwoSpawnStage("U", "T")
    \/ \E b \in BOOLEAN : ApplySpawn(b)
    \/ TwoBuild("T", "U")
    \/ TwoBuild("U", "T")
    \/ EndUpdate
    \/ TwoDespawnStage("T", "U")
    \/ TwoDespawnStage("U", "T")
    \/ \E b \in BOOLEAN : ApplyDespawn(b)

SpecTwoKinds == TwoInit /\ [][TwoNext]_vars

\* ================================================================ claims
\* m has not been despawned, re-tagged or rebuilt by the host in this tick.
Untouched(m) == m \notin touched /\ \A r \in rebuiltNow : r[2] # m

\* The linkage round trip model -> view -> model for kind k and view v.
Linked(m, k, v) ==
    /\ <<m, k, v>> \in viewable
    /\ v \in alive
    /\ <<v, k, m>> \in view

\* C1: every model that matched T's filter without Viewable<T> when a tick's
\* spawn stage ran, and that the host left alone during the tick, carries at
\* the end of the tick Viewable<T> whose view() is an existing object v that
\* carries View<T> whose viewable() is the model.
C1_SpawnRoundTrip ==
    pc = "idle" =>
        \A p \in spawnedNow : Untouched(p[1]) => Linked(p[1], "T", p[2])

\* A tick has ended with a model it spawned a view for linked to that view.
C1_Witness ==
    /\ pc = "idle"
    /\ \E p \in spawnedNow : Untouched(p[1]) /\ Linked(p[1], "T", p[2])

\* C2: a registered pair whose model no longer satisfied T's filter (or no
\* longer existed) when the despawn stage ran is, at the end of that tick,
\* gone altogether: the view does not exist, the model does not carry
\* Viewable<T> for it, and the Registry does not list the pair.
C2_DespawnTotal ==
    pc = "idle" =>
        \A p \in stale :
            /\ p[2] \notin alive
            /\ <<p[1], "T", p[2]>> \notin viewable
            /\ ~IsView(World, p[2])
            /\ p[2] \notin Views(World, p[1])

\* C3: in every state of a running program, views(m) is non-empty exactly when
\* contains(m), every v in views(m) is a view whose inverse entry is m, and
\* every key of view->model is in the view set of its model.
C3_RegistryConsistent ==
    Running =>
        /\ \A m \in Entity : (Views(World, m) # {}) <=> Contains(World, m)
        /\ \A m \in DOMAIN regE : \A v \in regE[m] : IsView(World, v) /\ regV[v] = m
        /\ \A v \in DOMAIN regV : v \in Views(World, regV[v])

\* A model whose earlier view was unregistered has a registered view again.
C3_Witness ==
    /\ Running
    /\ \E x \in DOMAIN built : Contains(World, x[1]) /\ ~IsView(World, x[3])

\* C4: the spawn stage buffers nothing for a model that carries Viewable<T>,
\* and no model ever has two live views of kind T or two registered views.
C4_NoDuplicateSpawn ==
    /\ pc = "spawn" => \A p \in spawnedNow : ~HasViewable(World, p[1], "T")
    /\ \A m \in Entity : Cardinality({v \in alive : <<v, "T", m>> \in view}) <= 1
    /\ Running => \A m \in DOMAIN regE : Cardinality(regE[m]) <= 1

\* The spawn stage has run against a linked, matching model and buffered nothing.
C4_Witness ==
    /\ pc = "spawn"
    /\ cmds = <<>>
    /\ \E t \in viewable : t[2] = "T" /\ Matches(World, t[1], "T") /\ Linked(t[1], "T", t[3])

\* C5: a tick after rebuild was called for the Viewable<T> of model m with view
\* v: v does not exist, is not registered and is not m's view; rebuild did not
\* cost the model its existence; and a model that still matches T and was left
\* alone in this tick is linked to a new view, distinct from v.
C5_RebuildRoundTrip ==
    pc = "idle" =>
        \A r \in rebuiltPrev : r[1] \in BaseKinds =>
            /\ r[3] \notin alive
            /\ ~IsView(World, r[3])
            /\ <<r[2], r[1], r[3]>> \notin viewable
            /\ r[2] \notin hostKilled => r[2] \in alive
            /\ (Matches(World, r[2], r[1]) /\ Untouched(r[2])) =>
                  \E v \in alive \ {r[3]} : Linked(r[2], r[1], v)

\* Model m, whose Viewable<T> names view v, has one view object, which carries
\* View<T>, View<S1> and View<S2> for it, and each of the three builders was
\* invoked exactly once for the pair.
Layered(m, v) ==
    /\ \A k \in Kinds : Linked(m, k, v)
    /\ {x[1] : x \in {y \in view : y[3] = m}} = {v}
    /\ \A k \in Kinds : <<m, k, v>> \in DOMAIN built /\ built[<<m, k, v>>] = 1

AfterBuild == pc \in {"update", "last", "despawn", "idle"}

RECURSIVE SumBuilt(_, _, _)
SumBuilt(m, k, vs) ==
    IF vs = {} THEN 0
    ELSE LET v == CHOOSE x \in vs : TRUE
         IN  (IF <<m, k, v>> \in DOMAIN built THEN built[<<m, k, v>>] ELSE 0)
             + SumBuilt(m, k, vs \ {v})

C8_LinkInvariant ==
    Running => \A t \in viewable : t[3] \in alive /\ <<t[3], t[2], t[1]>> \in view

\* The despawn stage has destroyed the view of a model built for S1.
C8_Witness ==
    /\ Running
    /\ pc = "idle"
    /\ \E p \in stale : p[2] \notin alive /\ <<p[1], "S1", p[2]>> \in DOMAIN built

\* C9: applying the buffered commands of the spawn stage, the despawn stage and
\* rebuild never aborts the program.
C9_NeverAborts == panic = "none"

\* The order in which a tick visits its stages.
StageOrder ==
    {<<"idle", "spawn">>, <<"spawn", "build">>, <<"build", "specs">>,
     <<"specs", "update">>, <<"update", "last">>, <<"last", "despawn">>,
     <<"despawn", "idle">>}

\* No stage after the spawn barrier runs with pipeline commands pending, and in
\* the update phase every view spawned in this tick for a model the host left
\* alone has had the builder of each kind the model matches invoked.
C10_BuiltBeforeUpdate ==
    /\ pc \in {"build", "specs", "update", "last"} => cmds = <<>>
    /\ (Running /\ pc = "update") =>
          \A p \in spawnedNow : Untouched(p[1]) =>
              \A k \in Kinds : Matches(World, p[1], k) => <<p[1], k, p[2]>> \in DOMAIN built

\* C10: within a tick the stages run in the order spawn, build T, build S1 and
\* S2, (update), despawn, each on a world where the commands of the stages
\* before it are applied; so in the update phase, every view spawned in this
\* tick for a model the host left alone has had the builder of T and of every
\* specialization the model matches invoked.
C10_StageOrdering ==
    /\ []C10_BuiltBeforeUpdate
    /\ [][pc' # pc => <<pc, pc'>> \in StageOrder]_vars

\* The update phase of a tick that spawned and built a view for a T, S1 model.
C10_Witness ==
    /\ Running
    /\ pc = "update"
    /\ \E p \in spawnedNow :
          /\ Untouched(p[1])
          /\ tags[p[1]] = {"T", "S1"}
          /\ \A k \in {"T", "S1"} : <<p[1], k, p[2]>> \in DOMAIN built

\* The end of a tick in which the host despawned, re-tagged and rebuilt
\* nothing: whatever the host did out-of-band was done before the tick began.
QuietTickEnd == pc = "idle" /\ touched = {} /\ rebuiltNow = {}

\* C11: at the end of a tick in which the host did nothing, is_view(v) holds
\* exactly for the existing objects v that are the linked view of an existing
\* model, and contains(m) holds only for existing models, whatever the host
\* destroyed before the tick began.
C11_RegistryAgreesWithStore ==
    (Running /\ QuietTickEnd) =>
        /\ \A v \in Entity :
              IsView(World, v) <=>
                  (v \in alive /\ \E m \in alive : \E k \in BaseKinds : Linked(m, k, v))
        /\ \A m \in Entity : Contains(World, m) => m \in alive

\* The objects some Viewable names as its view or the Registry lists as a view.
ViewObjects == ({t[3] : t \in viewable} \cup DOMAIN regV) \cap alive

\* C12: in every reachable state, every existing object that some Viewable
\* references as its view, or that the Registry lists as a view, carries Unload.
C12_ViewsCarryUnload == \A v \in ViewObjects : v \in unload

\* A view is linked to its model, registered, and carries Unload.
C12_Witness ==
    \E t \in viewable : t[3] \in ViewObjects /\ IsView(World, t[3]) /\ t[3] \in unload

\* C13: in every state of a running program, the kind set of T holds exactly
\* the models that have a registered view of kind T; in particular
\* Viewables::remove takes a model that has no other view out of the set.
C13_KindSetExact ==
    Running => regK["T"] = {m \in DOMAIN regE : regE[m] # {}}

\* C14: in every state of a running program, a model that carries Viewable<T>
\* and Viewable<S> for a specialization S of T names the same view object in
\* both, also when an earlier view of the model was destroyed.
C14_SharedView ==
    Running =>
        \A t \in viewable : \A u \in viewable :
            (t[1] = u[1] /\ u[2] \in SpecKinds /\ t[2] = Base(u[2])) => t[3] = u[3]

\* A model whose earlier view was destroyed carries Viewable<T> and
\* Viewable<S1>, both naming its new view.
C14_Witness ==
    /\ Running
    /\ \E t \in viewable :
          /\ t[2] = "T"
          /\ <<t[1], "S1", t[3]>> \in viewable
          /\ \E x \in DOMAIN built : x[1] = t[1] /\ x[3] # t[3] /\ x[3] \notin alive

\* The closures despawn_view has buffered.
Closures == {cmds[i] : i \in 1..Len(cmds)}

\* With T and U registered as base kinds: in the update phase, a model that a
\* spawn stage has seen, that matches both kinds and that the host left alone
\* in this tick has two distinct views, one per kind, both among views(model).
C15_TwoViews ==
    (Running /\ pc = "update") =>
        \A m \in alive :
            (tags[m] = TwoKinds /\ Untouched(m) /\ Contains(World, m)) =>
                \E v1 \in alive : \E v2 \in alive \ {v1} :
                    /\ Linked(m, "T", v1)
                    /\ Linked(m, "U", v2)
                    /\ {v1, v2} \subseteq Views(World, m)

\* Applying the despawn stage's buffer when it holds a closure for the k1 view
\* v1 of an existing model m and none for m's linked k2 view v2: v1, its link
\* and its Registry entry go; v2, Viewable<k2>, is_view(v2) and contains(m) stay.
C15_OnlyOneKindLeaves ==
    (pc = "despawn" /\ pc' = "idle" /\ hostCmds = <<>> /\ panic' = "none") =>
        \A m \in alive : \A v1 \in alive : \A v2 \in alive \ {v1} :
            \A k1 \in TwoKinds : \A k2 \in TwoKinds \ {k1} :
                (/\ <<"despawn_view", k1, m, v1>> \in Closures
                 /\ \A c \in Closures : ~(c[2] = k2 /\ c[3] = m)
                 /\ Linked(m, k2, v2)
                 /\ Views(World, m) = {v1, v2})
                    => /\ v1 \notin alive'
                       /\ <<m, k1, v1>> \notin viewable'
                       /\ ~IsView(World, v1)'
                       /\ Linked(m, k2, v2)'
                       /\ IsView(World, v2)'
                       /\ Contains(World, m)'
                       /\ Views(World, m)' = {v2}

\* contains(m) turns false only in a step that leaves m without a registered view.
C15_ContainsUntilLast ==
    \A m \in Entity :
        (Contains(World, m) /\ ~Contains(World, m)' /\ panic' = "none") =>
            \A v \in Views(World, m) : ~IsView(World, v)'

\* C15: a model matching two independently registered base kinds T and U gets
\* two distinct views, both returned by views(model); when it stops matching
\* one kind only, that kind's view and registry entries are removed while the
\* other view, its Viewable, is_view and contains(model) are unchanged; and
\* contains(model) becomes false only when the model's last view is removed.
C15_MultipleViews ==
    /\ []C15_TwoViews
    /\ [][C15_OnlyOneKindLeaves /\ C15_ContainsUntilLast]_vars

\* A model that had a view per kind stopped matching T: its T view is gone and
\* unregistered, its U view is still linked and registered.
C15_Witness ==
    /\ Running
    /\ pc = "idle"
    /\ \E m \in alive : \E v2 \in alive :
          /\ tags[m] = {"U"}
          /\ Linked(m, "U", v2)
          /\ Views(World, m) = {v2}
          /\ \E x \in DOMAIN built : x[1] = m /\ x[2] = "T" /\ x[3] \notin alive
          /\ ~HasViewable(World, m, "T")

\* View v of kind T is linked to model m and registered for it.
LinkedReg(m, v) ==
    /\ Linked(m, "T", v)
    /\ IsView(World, v)
    /\ regV[v] = m
    /\ v \in Views(World, m)

\* A step of the pipeline's stages that applies no command of the host.
PipelineStep == pc' # pc /\ hostCmds = <<>>

\* A pipeline step leaves every linked, registered view of kind T as it is,
\* unless it applies a despawn_view closure buffered for that view.
C16_OnlyDespawnDestroys ==
    PipelineStep =>
        \A m \in Entity : \A v \in Entity :
            (/\ LinkedReg(m, v)
             /\ ~(pc = "despawn" /\ <<"despawn_view", "T", m, v>> \in Closures))
                => LinkedReg(m, v)'

\* The despawn stage buffers closures, and only for views whose model fails
\* T's filter (or does not exist) when the stage evaluates.
C16_OnlyForMismatch ==
    (pc = "last" /\ pc' = "despawn") =>
        \A c \in Closures' :
            /\ c[1] = "despawn_view"
            /\ ~Matches(World, c[3], "T")
            /\ <<c[4], "T", c[3]>> \in view

\* C16: the pipeline's stages destroy a view of kind T only in the despawn
\* stage at the end of the tick, and only if its model failed T's filter (or
\* no longer existed) when that stage evaluated; a model that stops matching
\* during the update phase keeps its view, its Viewable<T> and its Registry
\* entry until then, and a model that matches at the evaluation keeps them.
C16_StableViewSet == [][C16_OnlyDespawnDestroys /\ C16_OnlyForMismatch]_vars

\* The despawn stage has buffered a closure for a model that stopped matching
\* in this tick and is still linked and registered.
C16_Witness ==
    /\ Running
    /\ pc = "despawn"
    /\ \E c \in Closures : c[3] \in touched /\ c[3] \in alive /\ LinkedReg(c[3], c[4])

\* C17: right after the barrier that applies the spawn stage's commands, for
\* every model the stage buffered commands for and that was destroyed before
\* they were applied, the program is still running, so that the next despawn
\* stage can clear the view object and the Registry entries left for the model.
C17_SpawnRaceNoResidue ==
    pc = "build" =>
        \A p \in spawnedNow : p[1] \notin alive => panic = "none"

\* The Viewables::add calls that are buffered.
PendingAdds == {c \in Closures : c[1] = "reg_add"}

\* C18: the assertion in Viewables::add never fires: every buffered call names
\* a view that has no entry in the view->model map, no two buffered calls name
\* the same view, and so no view is ever registered twice.
C18_AddFindsNoEntry ==
    /\ panic # "debug_assert previous.is_none"
    /\ \A c \in PendingAdds : c[4] \notin DOMAIN regV
    /\ \A c \in PendingAdds : \A d \in PendingAdds : c[4] = d[4] => c = d

\* A call is buffered while views of earlier ticks are registered.
C18_Witness ==
    /\ Running
    /\ PendingAdds # {}
    /\ DOMAIN regV # {}

\* Nothing is buffered, every model is linked and built for every kind whose
\* filter it satisfies, and no view of kind T has a model that fails T's filter.
Steady ==
    /\ Running
    /\ cmds = <<>>
    /\ hostCmds = <<>>
    /\ \A m \in alive : \A k \in tags[m] :
          /\ HasViewable(World, m, "T")
          /\ Linked(m, k, ViewOf(World, m, "T"))
          /\ <<m, k, ViewOf(World, m, "T")>> \in DOMAIN built
    /\ \A t \in view : t[2] = "T" => Matches(World, t[3], "T")

\* No object, link, Registry entry or builder invocation count changes, and
\* nothing is buffered.
NothingChanges ==
    /\ alive' = alive
    /\ unload' = unload
    /\ viewable' = viewable
    /\ view' = view
    /\ built' = built
    /\ regE' = regE
    /\ regK' = regK
    /\ regV' = regV
    /\ nextEntity' = nextEntity
    /\ cmds' = <<>>
    /\ panic' = "none"

\* C19: every stage of a tick that runs in a steady state changes nothing (and
\* so leaves the state steady for the next stage): a full tick from a steady
\* state creates and destroys no object, changes no Viewable/View link and no
\* Registry entry, and invokes no builder.
C19_SteadyTick == [][(Steady /\ pc' # pc) => NothingChanges]_vars

\* The last stage of a tick in which the host did nothing and nothing was
\* spawned is about to run on a steady state with a linked, built model.
C19_Witness ==
    /\ Steady
    /\ pc = "despawn"
    /\ touched = {}
    /\ rebuiltNow = {}
    /\ spawnedNow = {}
    /\ \E t \in viewable : tags[t[1]] = Kinds

====
